---- MODULE Spec2Model ----
(***************************************************************************)
(* Model of the query-to-recommendation pipeline of query_functions.py:    *)
(* feature extraction from the query text, batched top-k retrieval over    *)
(* the catalog embeddings and the rule-based filter; of the startup that   *)
(* loads the catalog; and of the two HTTP handlers of api.py and main.py.  *)
(*                                                                         *)
(* Text is a sequence of one-character strings, so that the regular        *)
(* expressions and the substring tests of the source are computed on the   *)
(* characters of the query, as the source computes them.                   *)
(***************************************************************************)
EXTENDS Integers, Sequences, FiniteSets, TLC

VARIABLES
    qparts,          \* the tokens the caller's query text is written from
    query,           \* the `query` string of query_handling / filter_recommendations
    raw_query,       \* the text submitted by the caller, before any enrichment
    fetch,           \* outcome of the page fetch: "none", "ok" or "failed"
    enhanced_query,  \* result of extract_features_from_query
    search_text,     \* the text handed to find_recommendations
    catalog_df,      \* the catalog table, one record per row
    sim,             \* cos_sim of the search text against every catalog row (1e-5 units)
    tie_low_first,   \* how torch.topk orders equal scores (unspecified by the library)
    k,               \* the k of find_recommendations
    i,               \* batch offset of the loop of find_recommendations
    top_scores,      \* running list of scores
    top_indices,     \* running list of catalog indices (0-based, as in the source)
    recommendations, \* the list returned by find_recommendations
    max_duration,    \* the local max_duration of filter_recommendations
    filtered,        \* the list returned by filter_recommendations
    pc,              \* position of the process or of the request
    artifact,        \* transformed_data1.csv: None when missing, else Some(rows)
    corpus_embeddings, \* one embedding per catalog row, built at startup
    encoded,         \* what model.encode and cos_sim have yielded so far, by text
    endpoint,        \* the route the request came in by
    num_results,     \* the num_results of the request body
    response,        \* the HTTP response, None until the handler ends
    calls,           \* how many times the caller has called query_handling
    first_query,     \* the query of the first call as it stood after URL handling
    first_output,    \* what the first call returned
    other            \* the locals of a second, suspended request; None without one

vars == <<qparts, query, raw_query, fetch, enhanced_query, search_text, catalog_df,
          sim, tie_low_first, k, i, top_scores, top_indices, recommendations,
          max_duration, filtered, pc, artifact, corpus_embeddings, encoded,
          endpoint, num_results, response, calls, first_query, first_output, other>>

\* what belongs to the caller of query_handling
caller == <<endpoint, num_results, response, calls, first_query, first_output>>

(***************************************************************************)
(* Bounds of the model.                                                    *)
(***************************************************************************)
\* longest candidate list handed to filter_recommendations on its own
MaxCands == 2
\* most tokens in a query handed to extract_features_from_query on its own
MaxTokens == 3
\* most catalog rows beyond the first batch
MaxOverhang == 2
\* cosine similarities are 0, 7, .., 7 * MaxLevel (in units of 1e-5)
MaxLevel == 2

(***************************************************************************)
(* Constants of the program.                                               *)
(***************************************************************************)
batch_size == 32
\* the k that query_handling asks for
PipelineK == 10
\* the default k of find_recommendations
DefaultK == 5

(***************************************************************************)
(* Characters and words.                                                   *)
(***************************************************************************)
UpperChars == <<"A", "B", "C", "D", "E", "F", "G", "H", "I", "J", "K", "L", "M",
                "N", "O", "P", "Q", "R", "S", "T", "U", "V", "W", "X", "Y", "Z">>
LowerChars == <<"a", "b", "c", "d", "e", "f", "g", "h", "i", "j", "k", "l", "m",
                "n", "o", "p", "q", "r", "s", "t", "u", "v", "w", "x", "y", "z">>
DigitChars == <<"0", "1", "2", "3", "4", "5", "6", "7", "8", "9">>

W_under == <<"u", "n", "d", "e", "r">>
W_less_than == <<"l", "e", "s", "s", " ", "t", "h", "a", "n">>
W_within == <<"w", "i", "t", "h", "i", "n">>
W_max == <<"m", "a", "x">>
W_min == <<"m", "i", "n">>
W_minutes == <<" ", "m", "i", "n", "u", "t", "e", "s">>
W_remote == <<"r", "e", "m", "o", "t", "e">>
W_adaptive == <<"a", "d", "a", "p", "t", "i", "v", "e">>
W_remote_testing == <<"r", "e", "m", "o", "t", "e", " ", "t", "e", "s", "t", "i", "n", "g">>
W_yes == <<"y", "e", "s">>
W_http == <<"h", "t", "t", "p", ":", "/", "/">>
W_https == <<"h", "t", "t", "p", "s", ":", "/", "/">>
W_python == <<"p", "y", "t", "h", "o", "n">>
W_java == <<"j", "a", "v", "a">>
W_javascript == <<"j", "a", "v", "a", "s", "c", "r", "i", "p", "t">>
W_sql == <<"s", "q", "l">>
W_problem_solving == <<"p", "r", "o", "b", "l", "e", "m", " ", "s", "o", "l", "v", "i", "n", "g">>
W_communication == <<"c", "o", "m", "m", "u", "n", "i", "c", "a", "t", "i", "o", "n">>
W_teamwork == <<"t", "e", "a", "m", "w", "o", "r", "k">>
W_coding == <<"c", "o", "d", "i", "n", "g">>
W_cognitive == <<"c", "o", "g", "n", "i", "t", "i", "v", "e">>
W_personality == <<"p", "e", "r", "s", "o", "n", "a", "l", "i", "t", "y">>
W_aptitude == <<"a", "p", "t", "i", "t", "u", "d", "e">>
W_Error == <<"E", "r", "r", "o", "r", ":", " ">>

\* an absent value (None, NaN) is the empty tuple, a present value v is <<v>>
None == <<>>
Some(v) == <<v>>
IsSet(o) == o # <<>>
Val(o) == o[1]

(***************************************************************************)
(* String primitives of Python used by the source.                         *)
(***************************************************************************)
\* str.lower() on one character
LowerChar(c) ==
    IF \E j \in 1..26 : UpperChars[j] = c
    THEN LowerChars[CHOOSE j \in 1..26 : UpperChars[j] = c]
    ELSE c

\* str.lower() of the first n characters of s
RECURSIVE LowerUpTo(_, _)
LowerUpTo(s, n) ==
    IF n = 0 THEN <<>> ELSE Append(LowerUpTo(s, n - 1), LowerChar(s[n]))

\* str.lower()
Lower(s) == LowerUpTo(s, Len(s))

\* \d of the regular expressions
IsDigit(c) == \E j \in 1..10 : DigitChars[j] = c

\* \s of the regular expressions
IsSpace(c) == c \in {" ", "\t", "\n"}

\* the text s continues with the literal w at position p
StartsWith(s, p, w) ==
    /\ p >= 1
    /\ p + Len(w) - 1 =< Len(s)
    /\ \A j \in 1..Len(w) : s[p + j - 1] = w[j]

\* `w in s`
Contains(s, w) == \E p \in 1..Len(s) : StartsWith(s, p, w)

\* last position of the greedy \d+ that starts at p (s[p] is a digit)
DigitsEnd(s, p) ==
    CHOOSE e \in p..Len(s) :
        /\ \A j \in p..e : IsDigit(s[j])
        /\ (e = Len(s) \/ ~IsDigit(s[e + 1]))

\* first position at or after p that the greedy \s* does not consume
SkipSpaces(s, p) ==
    CHOOSE e \in p..(Len(s) + 1) :
        /\ \A j \in p..(e - 1) : IsSpace(s[j])
        /\ (e = Len(s) + 1 \/ ~IsSpace(s[e]))

\* int() of a string of decimal digits
RECURSIVE ParseInt(_)
ParseInt(ds) ==
    IF ds = <<>> THEN 0
    ELSE 10 * ParseInt(SubSeq(ds, 1, Len(ds) - 1))
         + ((CHOOSE j \in 1..10 : DigitChars[j] = ds[Len(ds)]) - 1)

\* str() of a non-negative integer
RECURSIVE FormatInt(_)
FormatInt(n) ==
    IF n < 10 THEN <<DigitChars[n + 1]>>
    ELSE FormatInt(n \div 10) \o <<DigitChars[(n % 10) + 1]>>

\* ' '.join(list of strings)
RECURSIVE JoinSpace(_)
JoinSpace(ss) ==
    IF ss = <<>> THEN <<>>
    ELSE IF Len(ss) = 1 THEN ss[1]
    ELSE ss[1] \o <<" ">> \o JoinSpace(Tail(ss))

\* str.split(): the maximal runs of non-blank characters
RECURSIVE Split(_)
Split(s) ==
    IF s = <<>> THEN <<>>
    ELSE IF IsSpace(s[1]) THEN Split(Tail(s))
    ELSE LET e == CHOOSE e \in 1..Len(s) :
                      /\ \A j \in 1..e : ~IsSpace(s[j])
                      /\ (e = Len(s) \/ IsSpace(s[e + 1]))
         IN  <<SubSeq(s, 1, e)>> \o Split(SubSeq(s, e + 1, Len(s)))

(***************************************************************************)
(* extract_url_from_text and extract_text_from_url                         *)
(***************************************************************************)
\* [^\s,]
IsUrlChar(c) == ~IsSpace(c) /\ c # ","

\* length of "http://" or "https://" when https?:// matches at p and a URL character
\* follows, 0 otherwise
UrlAt(s, p) ==
    LET n == IF StartsWith(s, p, W_https) THEN Len(W_https)
             ELSE IF StartsWith(s, p, W_http) THEN Len(W_http) ELSE 0
    IN  IF n > 0 /\ p + n =< Len(s) /\ IsUrlChar(s[p + n]) THEN n ELSE 0

\* re.search(r'(https?://[^\s,]+)', text): the leftmost URL, or None
extract_url_from_text(s) ==
    LET hits == {p \in 1..Len(s) : UrlAt(s, p) > 0}
        first == CHOOSE p \in hits : \A r \in hits : p =< r
        last == CHOOSE e \in first..Len(s) :
                    /\ \A j \in (first + UrlAt(s, first))..e : IsUrlChar(s[j])
                    /\ e >= first + UrlAt(s, first)
                    /\ (e = Len(s) \/ ~IsUrlChar(s[e + 1]))
    IN  IF hits = {} THEN None ELSE Some(SubSeq(s, first, last))

\* ' '.join(soup.get_text().split()) for a page whose text is page_text
PageText(page_text) == JoinSpace(Split(page_text))

\* f"Error: {e}" for an exception whose message is message
ErrorText(message) == W_Error \o message

(***************************************************************************)
(* The two duration patterns.                                              *)
(***************************************************************************)
\* (\d+)\s*(?:min|minutes|mins) matches at p.  The three alternatives share the
\* prefix "min", and giving back a digit or a blank leaves a digit or a blank
\* before "min", so the greedy match is the only one.
DurationAt(s, p) ==
    /\ IsDigit(s[p])
    /\ StartsWith(s, SkipSpaces(s, DigitsEnd(s, p) + 1), W_min)

\* a search that returns the rightmost match instead of the leftmost
DurationSearch_Rightmost(s) ==
    LET hits == {p \in 1..Len(s) : DurationAt(s, p) /\ (p = 1 \/ ~IsDigit(s[p - 1]))}
        last == CHOOSE p \in hits : \A r \in hits : p >= r
    IN  IF hits = {} THEN None ELSE Some(SubSeq(s, last, DigitsEnd(s, last)))

\* re.search(r'(\d+)\s*(?:min|minutes|mins)', s): group(1) of the leftmost match
DurationSearch(s) ==
    LET hits == {p \in 1..Len(s) : DurationAt(s, p)}
        first == CHOOSE p \in hits : \A r \in hits : p =< r
    IN  IF hits = {} THEN None ELSE Some(SubSeq(s, first, DigitsEnd(s, first)))

Qualifiers == <<W_under, W_less_than, W_within, W_max>>

\* position of the number when (?:under|less than|within|max)\s*(\d+)\s*(?:min|...)
\* matches at p, 0 when it does not
CeilingAt(s, p) ==
    IF \E q \in 1..Len(Qualifiers) : StartsWith(s, p, Qualifiers[q])
    THEN LET w == CHOOSE q \in 1..Len(Qualifiers) : StartsWith(s, p, Qualifiers[q])
             d == SkipSpaces(s, p + Len(Qualifiers[w]))
         IN  IF d =< Len(s) /\ DurationAt(s, d) THEN d ELSE 0
    ELSE 0

\* re.search of the qualified pattern: group(1) of the leftmost match
CeilingSearch(s) ==
    LET hits == {p \in 1..Len(s) : CeilingAt(s, p) > 0}
        first == CHOOSE p \in hits : \A r \in hits : p =< r
        d == CeilingAt(s, first)
    IN  IF hits = {} THEN None ELSE Some(SubSeq(s, d, DigitsEnd(s, d)))

(***************************************************************************)
(* extract_features_from_query                                             *)
(***************************************************************************)
skills == <<W_python, W_java, W_javascript, W_sql, W_problem_solving,
            W_communication, W_teamwork>>
test_types == <<W_coding, W_cognitive, W_personality, W_communication, W_aptitude>>

\* features['duration']: int(group(1)) of the unqualified pattern, or None
FeatureDuration(ql) ==
    LET m == DurationSearch(ql)
    IN  IF IsSet(m) THEN Some(ParseInt(Val(m))) ELSE None

\* features['skills']: every skill found in the query, in vocabulary order
FeatureSkills(ql) == SelectSeq(skills, LAMBDA w : Contains(ql, w))

\* features['test_type']: the first test type found (the loop breaks on it)
FeatureTestType(ql) ==
    LET found == SelectSeq(test_types, LAMBDA w : Contains(ql, w))
    IN  IF found = <<>> THEN None ELSE Some(found[1])

\* the search terms of one request, in the order the source appends them
SearchTerms(ql) ==
    LET duration == FeatureDuration(ql)
        test_type == FeatureTestType(ql)
    IN  FeatureSkills(ql)
        \o (IF IsSet(test_type) THEN <<Val(test_type)>> ELSE <<>>)
        \o (IF IsSet(duration) /\ Val(duration) # 0
            THEN <<FormatInt(Val(duration)) \o W_minutes>> ELSE <<>>)
        \o (IF Contains(ql, W_remote) THEN <<W_remote_testing>> ELSE <<>>)
        \o (IF Contains(ql, W_adaptive) THEN <<W_adaptive>> ELSE <<>>)

extract_features_from_query(q) == JoinSpace(SearchTerms(Lower(q)))

(***************************************************************************)
(* filter_recommendations                                                  *)
(***************************************************************************)
\* a ceiling taken with the unqualified pattern of extract_features_from_query
max_duration_of_Unqualified(ql) ==
    LET m == DurationSearch(ql)
    IN  IF IsSet(m) THEN Some(ParseInt(Val(m))) ELSE None

\* max_duration: int(group(1)) of the qualified pattern, or None
max_duration_of(ql) ==
    LET m == CeilingSearch(ql)
    IN  IF IsSet(m) THEN Some(ParseInt(Val(m))) ELSE None

\* a duration test written `not float(...) <= max_duration`, which NaN fails
DurationExceeds_NotWithin(rec, ceiling) ==
    /\ IsSet(ceiling) /\ Val(ceiling) # 0
    /\ ~(IsSet(rec.Duration) /\ Val(rec.Duration) =< Val(ceiling))

\* `max_duration and rec['Duration in mins'] and float(...) > max_duration`:
\* None and 0 are falsy, NaN (an absent duration) is truthy and compares False
DurationExceeds(rec, ceiling) ==
    /\ IsSet(ceiling) /\ Val(ceiling) # 0
    /\ IsSet(rec.Duration) /\ Val(rec.Duration) # 0
    /\ Val(rec.Duration) > Val(ceiling)

\* a flag test that forgets .lower() on the catalog value
RemoteMissing_CaseSensitive(rec, ql) ==
    Contains(ql, W_remote) /\ rec.Remote # W_yes

\* (ql is query.lower())
\* `'remote' in query.lower() and rec['Remote Testing'].lower() != 'yes'`
RemoteMissing(rec, ql) ==
    Contains(ql, W_remote) /\ Lower(rec.Remote) # W_yes

\* `'adaptive' in query.lower() and rec['Adaptive/IRT'].lower() != 'yes'`
AdaptiveMissing(rec, ql) ==
    Contains(ql, W_adaptive) /\ Lower(rec.Adaptive) # W_yes

\* a loop that puts each kept candidate in front: filtered.insert(0, rec)
FilterLoop_Prepend(recs, q) ==
    LET ql == Lower(q)
        ceiling == max_duration_of(ql)
        kept == SelectSeq(recs, LAMBDA rec :
                    /\ ~DurationExceeds(rec, ceiling)
                    /\ ~RemoteMissing(rec, ql)
                    /\ ~AdaptiveMissing(rec, ql))
    IN  [j \in 1..Len(kept) |-> kept[Len(kept) + 1 - j]]

\* the list `filtered` built by the loop
FilterLoop(recs, q) ==
    LET ql == Lower(q)
        ceiling == max_duration_of(ql)
    IN  SelectSeq(recs, LAMBDA rec :
            /\ ~DurationExceeds(rec, ceiling)
            /\ ~RemoteMissing(rec, ql)
            /\ ~AdaptiveMissing(rec, ql))

\* `recommendations[:1]`
FirstOnly(recs) == IF recs = <<>> THEN <<>> ELSE <<recs[1]>>

\* `return filtered if filtered else recommendations[:1]`
filter_recommendations(recs, q) ==
    LET kept == FilterLoop(recs, q)
    IN  IF kept # <<>> THEN kept ELSE FirstOnly(recs)

(***************************************************************************)
(* Query texts.  A query is written from tokens joined by single blanks;   *)
(* the token list is kept beside the text so that properties can speak of  *)
(* what the caller wrote, independently of the pattern matching.           *)
(*   qual:   one of the four qualifiers                                    *)
(*   phrase: a duration phrase "N min / mins / minutes", n is N and        *)
(*           minutes is the text "N minutes"                               *)
(*   word:   any other word                                                *)
(*   url:    a URL                                                         *)
(***************************************************************************)
T_under == [kind |-> "qual", text |-> <<"u", "n", "d", "e", "r">>, n |-> 0, minutes |-> <<>>]
T_less_than == [kind |-> "qual", text |-> <<"L", "e", "s", "s", " ", "t", "h", "a", "n">>, n |-> 0, minutes |-> <<>>]
T_within == [kind |-> "qual", text |-> <<"w", "i", "t", "h", "i", "n">>, n |-> 0, minutes |-> <<>>]
T_max == [kind |-> "qual", text |-> <<"M", "A", "X">>, n |-> 0, minutes |-> <<>>]
T_30_minutes == [kind |-> "phrase", text |-> <<"3", "0", " ", "m", "i", "n", "u", "t", "e", "s">>, n |-> 30, minutes |-> <<"3", "0", " ", "m", "i", "n", "u", "t", "e", "s">>]
T_45mins == [kind |-> "phrase", text |-> <<"4", "5", "m", "i", "n", "s">>, n |-> 45, minutes |-> <<"4", "5", " ", "m", "i", "n", "u", "t", "e", "s">>]
T_0_min == [kind |-> "phrase", text |-> <<"0", " ", "m", "i", "n">>, n |-> 0, minutes |-> <<"0", " ", "m", "i", "n", "u", "t", "e", "s">>]
T_020_Min == [kind |-> "phrase", text |-> <<"0", "2", "0", " ", "M", "i", "n">>, n |-> 20, minutes |-> <<"2", "0", " ", "m", "i", "n", "u", "t", "e", "s">>]
T_remote == [kind |-> "word", text |-> <<"r", "e", "m", "o", "t", "e">>, n |-> 0, minutes |-> <<>>]
T_Adaptive == [kind |-> "word", text |-> <<"A", "d", "a", "p", "t", "i", "v", "e">>, n |-> 0, minutes |-> <<>>]
T_python == [kind |-> "word", text |-> <<"p", "y", "t", "h", "o", "n">>, n |-> 0, minutes |-> <<>>]
T_coding == [kind |-> "word", text |-> <<"c", "o", "d", "i", "n", "g">>, n |-> 0, minutes |-> <<>>]
T_test == [kind |-> "word", text |-> <<"t", "e", "s", "t">>, n |-> 0, minutes |-> <<>>]
T_SQL == [kind |-> "word", text |-> <<"S", "Q", "L">>, n |-> 0, minutes |-> <<>>]
T_Aptitude == [kind |-> "word", text |-> <<"A", "p", "t", "i", "t", "u", "d", "e">>, n |-> 0, minutes |-> <<>>]

T_url == [kind |-> "url", text |-> <<"h", "t", "t", "p", "s", ":", "/", "/", "x", ".", "i", "o", "/", "a">>, n |-> 0, minutes |-> <<>>]

QualTokens == <<T_under, T_less_than, T_within, T_max>>
PhraseTokens == <<T_30_minutes, T_45mins, T_0_min, T_020_Min>>
WordTokens == {T_remote, T_Adaptive, T_python, T_coding, T_test}

\* the text of a token list
TextOf(parts) == JoinSpace([j \in 1..Len(parts) |-> parts[j].text])

\* the sub-list of a token list at the positions in keep
Pick(parts, keep) == SelectSeq([j \in 1..Len(parts) |-> IF j \in keep THEN <<parts[j]>> ELSE <<>>],
                               LAMBDA o : o # <<>>)

\* queries for the filter: any selection from "<qualifier> <phrase> remote Adaptive"
\* that keeps the phrase when it keeps the qualifier
FilterQueryParts ==
    { [j \in 1..Len(Pick(<<QualTokens[q], PhraseTokens[q], T_remote, T_Adaptive>>, keep))
          |-> Pick(<<QualTokens[q], PhraseTokens[q], T_remote, T_Adaptive>>, keep)[j][1]] :
        q \in 1..Len(QualTokens), keep \in {S \in SUBSET (1..4) : 1 \in S => 2 \in S} }

(***************************************************************************)
(* Catalog rows and candidate lists.                                       *)
(***************************************************************************)
F_Yes == <<"Y", "e", "s">>
F_yes == <<"y", "e", "s">>
F_No == <<"N", "o">>

\* the columns of a row that the pipeline reads
RowKinds ==
    [Duration : {None, Some(20), Some(45)}, Remote : {F_Yes, F_No}, Adaptive : {F_yes, F_No}]

\* round(float(score), 4) of a score given in units of 1e-5 (half to even)
Round4(x) ==
    LET r == x % 10
        down == x - r
    IN  IF r < 5 THEN down
        ELSE IF r > 5 THEN down + 10
        ELSE IF (down \div 10) % 2 = 0 THEN down ELSE down + 10

\* the dict find_recommendations builds for catalog row idx (0-based) with score s;
\* Row stands for the columns that identify the row (name, URL, description, ...)
ResultOf(row, idx, s) ==
    [Row |-> idx, Duration |-> row.Duration, Remote |-> row.Remote,
     Adaptive |-> row.Adaptive, Score |-> Round4(s)]

\* candidate lists as find_recommendations(.., k=10) returns them: distinct rows,
\* scores in non-increasing order; either the first candidate alone scores 24 and
\* the rest 7, or all score 24
CandidateLists ==
    UNION { { [j \in 1..n |-> ResultOf(rows[j], j - 1, IF j =< high THEN 24 ELSE 7)] :
                rows \in [1..n -> RowKinds], high \in {1, n} } :
            n \in 0..MaxCands }

(***************************************************************************)
(* The catalog store: the table and one embedding per row.                 *)
(***************************************************************************)
\* the parts of a row that go into its text for embedding
combine_row(row) == <<row.Duration, row.Remote, row.Adaptive>>

\* model.encode over the corpus, batch by batch, concatenated: the embedding of a
\* row stands for the text it was computed from
Embeddings(rows) == [j \in 1..Len(rows) |-> [blob |-> combine_row(rows[j])]]

\* the store after a startup that read the given rows
Loaded(rows) ==
    /\ artifact = Some(rows)
    /\ catalog_df = rows
    /\ corpus_embeddings = Embeddings(rows)

\* a function called on its own, outside the service
NoStore ==
    /\ artifact = None
    /\ catalog_df = <<>>
    /\ corpus_embeddings = <<>>

\* the default of QueryRequest.num_results
DefaultNumResults == 5

\* query_handling called once, by no endpoint, with no other request around
NoCaller ==
    /\ endpoint = "none"
    /\ num_results = DefaultNumResults
    /\ response = None
    /\ calls = 1
    /\ first_query = <<>>
    /\ first_output = <<>>
    /\ other = None

(***************************************************************************)
(* find_recommendations                                                    *)
(***************************************************************************)
Min(a, b) == IF a < b THEN a ELSE b

\* s[:n]
Take(s, n) == SubSeq(s, 1, Min(n, Len(s)))

\* torch.topk(batch_scores, k=kk): the kk largest scores in descending order with
\* their positions in the batch (0-based); the order of equal scores is the
\* library's, lowest position first when low_first and highest first otherwise
TopKPositions(batch_scores, kk, low_first) ==
    Take(SortSeq([j \in 1..Len(batch_scores) |-> j - 1],
                 LAMBDA a, b :
                     \/ batch_scores[a + 1] > batch_scores[b + 1]
                     \/ /\ batch_scores[a + 1] = batch_scores[b + 1]
                        /\ IF low_first THEN a < b ELSE a > b),
         kk)

\* sorted(scores, reverse=True)
SortedReverse(scores) == SortSeq(scores, LAMBDA a, b : a > b)

\* zip(a, b): as long as the shorter of the two
Zip(a, b) == [j \in 1..Min(Len(a), Len(b)) |-> <<a[j], b[j]>>]

\* sorted(pairs, reverse=True) on (score, index) tuples
SortedPairsReverse(pairs) ==
    SortSeq(pairs, LAMBDA a, b : a[1] > b[1] \/ (a[1] = b[1] /\ a[2] > b[2]))

\* lines 167-168: the running scores after a batch was appended
MergeScores(scores, kk) ==
    IF Len(scores) > kk THEN Take(SortedReverse(scores), kk) ELSE scores

\* lines 167-169: the running indices after a batch was appended; the zip pairs the
\* ALREADY sorted and truncated scores with the untruncated index list
MergeIndices(scores, indices, kk) ==
    IF Len(scores) > kk
    THEN LET pairs == SortedPairsReverse(Zip(MergeScores(scores, kk), indices))
         IN  Take([j \in 1..Len(pairs) |-> pairs[j][2]], kk)
    ELSE indices

\* lines 157-169: one iteration of the loop over the batches
ScanBatch ==
    /\ pc = "scan"
    /\ i < Len(sim)
    /\ LET batch_scores == SubSeq(sim, i + 1, Min(i + batch_size, Len(sim)))
           batch_top_k == Min(k, Len(batch_scores))
           batch_top_indices == TopKPositions(batch_scores, batch_top_k, tie_low_first)
           batch_top_scores == [j \in 1..Len(batch_top_indices) |->
                                    batch_scores[batch_top_indices[j] + 1]]
           scores == top_scores \o batch_top_scores
           indices == top_indices \o [j \in 1..Len(batch_top_indices) |->
                                          batch_top_indices[j] + i]
       IN  /\ top_scores' = MergeScores(scores, k)
           /\ top_indices' = MergeIndices(scores, indices, k)
    /\ i' = i + batch_size
    /\ UNCHANGED <<artifact, corpus_embeddings, encoded, caller, other,
                   qparts, query, raw_query, fetch, enhanced_query, search_text,
                   catalog_df, sim, tie_low_first, k, recommendations,
                   max_duration, filtered, pc>>

\* lines 171-186: the result dicts, one per (score, index) pair
BuildResults ==
    /\ pc = "scan"
    /\ i >= Len(sim)
    /\ recommendations' =
           [j \in 1..Min(Len(top_scores), Len(top_indices)) |->
                ResultOf(catalog_df[top_indices[j] + 1], top_indices[j], top_scores[j])]
    /\ pc' = "filter"
    /\ UNCHANGED <<artifact, corpus_embeddings, encoded, caller, other,
                   qparts, query, raw_query, fetch, enhanced_query, search_text,
                   catalog_df, sim, tie_low_first, k, i, top_scores, top_indices,
                   max_duration, filtered>>

(***************************************************************************)
(* The request.                                                            *)
(***************************************************************************)
\* query_handling, line 203: filtered_recommendations = filter_recommendations(...)
Filter ==
    /\ pc = "filter"
    /\ max_duration' = max_duration_of(Lower(query))
    /\ filtered' = filter_recommendations(recommendations, query)
    /\ pc' = "done"
    /\ UNCHANGED <<artifact, corpus_embeddings, encoded, caller, other,
                   qparts, query, raw_query, fetch, enhanced_query, search_text,
                   catalog_df, sim, tie_low_first, k, i, top_scores, top_indices,
                   recommendations>>

\* filter_recommendations on its own: every query of FilterQueryParts against
\* every candidate list
InitFilter ==
    /\ qparts \in FilterQueryParts
    /\ query = TextOf(qparts)
    /\ raw_query = query
    /\ recommendations \in CandidateLists
    /\ fetch = "none"
    /\ enhanced_query = <<>>
    /\ search_text = <<>>
    /\ NoStore
    /\ encoded = <<>>
    /\ NoCaller
    /\ sim = <<>>
    /\ tie_low_first = TRUE
    /\ k = PipelineK
    /\ i = 0
    /\ top_scores = <<>>
    /\ top_indices = <<>>
    /\ max_duration = None
    /\ filtered = <<>>
    /\ pc = "filter"

NextFilter == Filter

SpecFilter == InitFilter /\ [][NextFilter]_vars

(***************************************************************************)
(* find_recommendations on its own: catalogs of one or two rows and        *)
(* catalogs that fill the first batch and reach up to MaxOverhang rows     *)
(* into the second; every row scores 7 except two marked rows.             *)
(***************************************************************************)
SimValues == {7 * l : l \in 0..MaxLevel}

CatalogSizes == {1, 2} \cup {batch_size + d : d \in 0..MaxOverhang}

Marked(n) == {1, 2, batch_size, batch_size + 1, n} \cap (1..n)

\* a row whose columns play no part in the retrieval
PlainRow == [Duration |-> Some(20), Remote |-> F_Yes, Adaptive |-> F_No]

InitFind ==
    /\ \E n \in CatalogSizes :
         /\ Loaded([j \in 1..n |-> PlainRow])
         /\ \E a \in Marked(n), b \in Marked(n), sa \in SimValues, sb \in SimValues :
              sim = [j \in 1..n |-> IF j = a THEN sa ELSE IF j = b THEN sb ELSE 7]
         /\ k \in {1, 2, DefaultK, PipelineK} \cup {batch_size + d : d \in 1..MaxOverhang}
    /\ tie_low_first \in BOOLEAN
    /\ encoded = <<>>
    /\ NoCaller
    /\ qparts = <<>>
    /\ query = <<>>
    /\ raw_query = <<>>
    /\ fetch = "none"
    /\ enhanced_query = <<>>
    /\ search_text = <<>>
    /\ i = 0
    /\ top_scores = <<>>
    /\ top_indices = <<>>
    /\ recommendations = <<>>
    /\ max_duration = None
    /\ filtered = <<>>
    /\ pc = "scan"

NextFind == ScanBatch \/ BuildResults

SpecFind == InitFind /\ [][NextFind]_vars

\* the same with the tie order most favourable to the caller: torch.topk returns
\* equal scores lowest position first
InitFindLowFirst == InitFind /\ tie_low_first = TRUE

SpecFindLowFirst == InitFindLowFirst /\ [][NextFind]_vars

(***************************************************************************)
(* query_handling: one request against a catalog of three rows.            *)
(***************************************************************************)
\* most tokens in a query handed to query_handling
MaxPipelineTokens == 2

PipelineVocabulary == {T_test, T_python, T_remote, T_30_minutes, T_url}

PipelineQueryParts == UNION { [1..n -> PipelineVocabulary] : n \in 0..MaxPipelineTokens }

\* what a fetched page reads, as soup.get_text() returns it
PageTexts == { <<"J", "a", "v", "a", " ", " ", "t", "e", "s", "t", "\n">>,
               <<"\n", "C", "a", "r", "e", "e", "r", "s", "\n">>,
               <<" ", "A", "d", "a", "p", "t", "i", "v", "e", ",", "\n", " ", "m", "a", "x", " ", "4", "5", " ", "m", "i", "n">> }

\* messages of the exceptions requests.get raises
ErrorMessages == { <<"C", "o", "n", "n", "e", "c", "t", "i", "o", "n", " ", "r", "e", "f", "u", "s", "e", "d">>,
                   <<"R", "e", "m", "o", "t", "e", " ", "e", "n", "d", " ", "c", "l", "o", "s", "e", "d", " ", "c", "o", "n", "n", "e", "c", "t", "i", "o", "n", " ", "w", "i", "t", "h", "o", "u", "t", " ", "r", "e", "s", "p", "o", "n", "s", "e">> }

PipelineCatalog ==
    << [Duration |-> Some(20), Remote |-> F_Yes, Adaptive |-> F_No],
       [Duration |-> Some(45), Remote |-> F_No, Adaptive |-> F_yes],
       [Duration |-> None, Remote |-> F_Yes, Adaptive |-> F_yes] >>

\* lines 191-192: the query holds no URL
NoUrl ==
    /\ pc = "start"
    /\ ~IsSet(extract_url_from_text(query))
    /\ pc' = "extract"
    /\ UNCHANGED <<artifact, corpus_embeddings, encoded, caller, other,
                   qparts, query, raw_query, fetch, enhanced_query, search_text,
                   catalog_df, sim, tie_low_first, k, i, top_scores, top_indices,
                   recommendations, max_duration, filtered>>

\* lines 191-194 and 67-70: the page is fetched and its text appended
FetchOk ==
    /\ pc = "start"
    /\ IsSet(extract_url_from_text(query))
    /\ \E page_text \in PageTexts : query' = query \o <<" ">> \o PageText(page_text)
    /\ fetch' = "ok"
    /\ pc' = "extract"
    /\ UNCHANGED <<artifact, corpus_embeddings, encoded, caller, other,
                   qparts, raw_query, enhanced_query, search_text,
                   catalog_df, sim, tie_low_first, k, i, top_scores, top_indices,
                   recommendations, max_duration, filtered>>

\* lines 191-194 and 71-72: the fetch raises and the error text is appended
FetchFailed ==
    /\ pc = "start"
    /\ IsSet(extract_url_from_text(query))
    /\ \E message \in ErrorMessages : query' = query \o <<" ">> \o ErrorText(message)
    /\ fetch' = "failed"
    /\ pc' = "extract"
    /\ UNCHANGED <<artifact, corpus_embeddings, encoded, caller, other,
                   qparts, raw_query, enhanced_query, search_text,
                   catalog_df, sim, tie_low_first, k, i, top_scores, top_indices,
                   recommendations, max_duration, filtered>>

\* a caller that searches on the enhanced string whatever it holds
SearchTextOf_Enhanced(q) == extract_features_from_query(q)

\* lines 191-193 and 68: requests.get is called without a timeout, so with a server
\* that never answers the call does not return
FetchBlocks ==
    /\ pc = "start"
    /\ IsSet(extract_url_from_text(query))
    /\ fetch' = "pending"
    /\ pc' = "blocked"
    /\ UNCHANGED <<artifact, corpus_embeddings, encoded, caller, other,
                   qparts, query, raw_query, enhanced_query, search_text,
                   catalog_df, sim, tie_low_first, k, i, top_scores, top_indices,
                   recommendations, max_duration, filtered>>

\* the text find_recommendations is called with (line 200)
SearchTextOf(q) ==
    LET enhanced == extract_features_from_query(q)
    IN  IF enhanced # <<>> THEN enhanced ELSE q

\* lines 197 and 200: the features, and the choice of the search text
Extract ==
    /\ pc = "extract"
    /\ enhanced_query' = extract_features_from_query(query)
    /\ search_text' = SearchTextOf(query)
    /\ pc' = "encode"
    /\ UNCHANGED <<artifact, corpus_embeddings, encoded, caller, other,
                   qparts, query, raw_query, fetch,
                   catalog_df, sim, tie_low_first, k, i, top_scores, top_indices,
                   recommendations, max_duration, filtered>>

\* an embedding model that samples: the same text may score differently each time
EncodeChoices_Sampling(memo, text, n) == [1..n -> SimValues]

\* model.encode and util.cos_sim: the similarities of a text against the n catalog
\* embeddings are whatever the model yields, and the same for the same text
EncodeChoices(memo, text, n) ==
    IF text \in DOMAIN memo THEN {memo[text]} ELSE [1..n -> SimValues]

\* lines 150-155: the query is embedded and scored against the catalog
Encode ==
    /\ pc = "encode"
    /\ sim' \in EncodeChoices(encoded, search_text, Len(corpus_embeddings))
    /\ encoded' = (search_text :> sim') @@ encoded
    /\ i' = 0
    /\ top_scores' = <<>>
    /\ top_indices' = <<>>
    /\ pc' = "scan"
    /\ UNCHANGED <<artifact, corpus_embeddings, caller, other,
                   qparts, query, raw_query, fetch, enhanced_query, search_text,
                   catalog_df, tie_low_first, k, recommendations, max_duration, filtered>>

Init ==
    /\ qparts \in PipelineQueryParts
    /\ query = TextOf(qparts)
    /\ raw_query = query
    /\ fetch = "none"
    /\ enhanced_query = <<>>
    /\ search_text = <<>>
    /\ Loaded(PipelineCatalog)
    /\ encoded = <<>>
    /\ NoCaller
    /\ sim = <<>>
    /\ tie_low_first \in BOOLEAN
    /\ k = PipelineK
    /\ i = 0
    /\ top_scores = <<>>
    /\ top_indices = <<>>
    /\ recommendations = <<>>
    /\ max_duration = None
    /\ filtered = <<>>
    /\ pc = "start"

Next ==
    \/ NoUrl
    \/ FetchOk
    \/ FetchFailed
    \/ FetchBlocks
    \/ Extract
    \/ Encode
    \/ ScanBatch
    \/ BuildResults
    \/ Filter

Spec == Init /\ [][Next]_vars

\* query_handling up to the choice of the search text
NextHandling ==
    \/ NoUrl
    \/ FetchOk
    \/ FetchFailed
    \/ Extract

SpecHandling == Init /\ [][NextHandling]_vars

(***************************************************************************)
(* The process: startup from the catalog artifact, then query_handling     *)
(* called twice with the same text against a catalog of two rows.          *)
(***************************************************************************)
\* the BATCH_SIZE of the embedding loop at startup
BATCH_SIZE == 32

\* a torch.cat that returns an empty tensor for an empty list
CatRaises_Never(batches) == FALSE

\* line 58: torch.cat raises RuntimeError when handed an empty list of tensors
CatRaises(batches) == batches = <<>>

\* lines 51-56: the list of per-batch embeddings, one entry per BATCH_SIZE rows
EmbeddingBatches(rows) ==
    [b \in 1..((Len(rows) + BATCH_SIZE - 1) \div BATCH_SIZE) |->
        SubSeq(Embeddings(rows), (b - 1) * BATCH_SIZE + 1, Min(b * BATCH_SIZE, Len(rows)))]

\* lines 12-24 and 42-43: the artifact is there and is read
LoadCatalog ==
    /\ pc = "boot"
    /\ IsSet(artifact)
    /\ catalog_df' = Val(artifact)
    /\ pc' = "embed"
    /\ UNCHANGED <<artifact, corpus_embeddings, encoded, caller, other,
                   qparts, query, raw_query, fetch, enhanced_query, search_text,
                   sim, tie_low_first, k, i, top_scores, top_indices,
                   recommendations, max_duration, filtered>>

\* lines 25-26: the artifact is missing, FileNotFoundError ends the import
LoadFails ==
    /\ pc = "boot"
    /\ ~IsSet(artifact)
    /\ pc' = "crashed"
    /\ UNCHANGED <<artifact, corpus_embeddings, encoded, caller, other,
                   qparts, query, raw_query, fetch, enhanced_query, search_text,
                   catalog_df, sim, tie_low_first, k, i, top_scores, top_indices,
                   recommendations, max_duration, filtered>>

\* lines 49-58: the embeddings are built and concatenated; the module is imported
BuildEmbeddings ==
    /\ pc = "embed"
    /\ ~CatRaises(EmbeddingBatches(catalog_df))
    /\ corpus_embeddings' = Embeddings(catalog_df)
    /\ pc' = "serving"
    /\ UNCHANGED <<artifact, encoded, caller, other,
                   qparts, query, raw_query, fetch, enhanced_query, search_text,
                   catalog_df, sim, tie_low_first, k, i, top_scores, top_indices,
                   recommendations, max_duration, filtered>>

\* lines 49-58 with no row: the loop runs zero times and torch.cat raises
ConcatFails ==
    /\ pc = "embed"
    /\ CatRaises(EmbeddingBatches(catalog_df))
    /\ pc' = "crashed"
    /\ UNCHANGED <<artifact, corpus_embeddings, encoded, caller, other,
                   qparts, query, raw_query, fetch, enhanced_query, search_text,
                   catalog_df, sim, tie_low_first, k, i, top_scores, top_indices,
                   recommendations, max_duration, filtered>>

\* a caller calls query_handling(query)
Call ==
    /\ pc = "serving"
    /\ pc' = "start"
    /\ UNCHANGED <<artifact, corpus_embeddings, encoded, caller, other,
                   qparts, query, raw_query, fetch, enhanced_query, search_text,
                   catalog_df, sim, tie_low_first, k, i, top_scores, top_indices,
                   recommendations, max_duration, filtered>>

\* the caller keeps what the first call returned and calls again with the same text
CallAgain ==
    /\ pc = "done"
    /\ calls = 1
    /\ calls' = 2
    /\ first_query' = query
    /\ first_output' = filtered
    /\ query' = raw_query
    /\ fetch' = "none"
    /\ pc' = "start"
    /\ UNCHANGED <<artifact, corpus_embeddings, encoded, other,
                   endpoint, num_results, response,
                   qparts, raw_query, enhanced_query, search_text,
                   catalog_df, sim, tie_low_first, k, i, top_scores, top_indices,
                   recommendations, max_duration, filtered>>

ServiceCatalog ==
    << [Duration |-> Some(45), Remote |-> F_No, Adaptive |-> F_yes],
       [Duration |-> None, Remote |-> F_Yes, Adaptive |-> F_No] >>

\* the artifact is missing, has a header and no row, or holds the two rows
Artifacts == {None, Some(<<>>), Some(ServiceCatalog)}

ServiceQueryParts == { <<T_test>>, <<T_url>>, <<T_remote, T_url>> }

InitService ==
    /\ artifact \in Artifacts
    /\ catalog_df = <<>>
    /\ corpus_embeddings = <<>>
    /\ encoded = <<>>
    /\ NoCaller
    /\ qparts \in ServiceQueryParts
    /\ query = TextOf(qparts)
    /\ raw_query = query
    /\ fetch = "none"
    /\ enhanced_query = <<>>
    /\ search_text = <<>>
    /\ sim = <<>>
    /\ tie_low_first \in BOOLEAN
    /\ k = PipelineK
    /\ i = 0
    /\ top_scores = <<>>
    /\ top_indices = <<>>
    /\ recommendations = <<>>
    /\ max_duration = None
    /\ filtered = <<>>
    /\ pc = "boot"

NextService ==
    \/ LoadCatalog
    \/ LoadFails
    \/ BuildEmbeddings
    \/ ConcatFails
    \/ Call
    \/ NoUrl
    \/ FetchOk
    \/ FetchFailed
    \/ FetchBlocks
    \/ Extract
    \/ Encode
    \/ ScanBatch
    \/ BuildResults
    \/ Filter
    \/ CallAgain

SpecService == InitService /\ [][NextService]_vars

\* the steps of the import of query_functions and of the first call
Startup == LoadCatalog \/ LoadFails \/ BuildEmbeddings \/ ConcatFails \/ Call

\* the steps of lines 191-194
UrlHandling == NoUrl \/ FetchOk \/ FetchFailed \/ FetchBlocks

\* the process and one call of query_handling
NextRequest ==
    \/ LoadCatalog
    \/ LoadFails
    \/ BuildEmbeddings
    \/ ConcatFails
    \/ Call
    \/ NoUrl
    \/ FetchOk
    \/ FetchFailed
    \/ FetchBlocks
    \/ Extract
    \/ Encode
    \/ ScanBatch
    \/ BuildResults
    \/ Filter

\* the interpreter runs every statement it has reached: weak fairness of each step.
\* For Extract and Filter, which are enabled exactly when pc is "extract" and
\* "filter", weak fairness is written out as []<>~ENABLED \/ []<><<A>>_vars
SpecRequestLive ==
    /\ InitService
    /\ [][NextRequest]_vars
    /\ WF_vars(Startup)
    /\ WF_vars(UrlHandling)
    /\ ([]<>(pc # "extract") \/ []<><<Extract>>_vars)
    /\ WF_vars(Encode)
    /\ WF_vars(ScanBatch \/ BuildResults)
    /\ ([]<>(pc # "filter") \/ []<><<Filter>>_vars)

(***************************************************************************)
(* extract_features_from_query and the ceiling of filter_recommendations   *)
(* on their own: every query of at most MaxTokens tokens, handed to the    *)
(* one or to the other.                                                    *)
(***************************************************************************)
ExtractVocabulary ==
    {QualTokens[j] : j \in 1..Len(QualTokens)}
    \cup {PhraseTokens[j] : j \in 1..Len(PhraseTokens)}
    \cup WordTokens

ExtractQueryParts == UNION { [1..n -> ExtractVocabulary] : n \in 0..MaxTokens }

\* two candidates for the filter to work on
ProbeCandidates ==
    << ResultOf([Duration |-> Some(20), Remote |-> F_Yes, Adaptive |-> F_No], 0, 24),
       ResultOf([Duration |-> Some(45), Remote |-> F_No, Adaptive |-> F_yes], 1, 7) >>

InitExtract ==
    /\ qparts \in ExtractQueryParts
    /\ query = TextOf(qparts)
    /\ raw_query = query
    /\ pc \in {"extract", "filter"}
    /\ recommendations = IF pc = "filter" THEN ProbeCandidates ELSE <<>>
    /\ fetch = "none"
    /\ enhanced_query = <<>>
    /\ search_text = <<>>
    /\ NoStore
    /\ encoded = <<>>
    /\ NoCaller
    /\ sim = <<>>
    /\ tie_low_first = TRUE
    /\ k = PipelineK
    /\ i = 0
    /\ top_scores = <<>>
    /\ top_indices = <<>>
    /\ max_duration = None
    /\ filtered = <<>>

NextExtract == Extract \/ Filter

SpecExtract == InitExtract /\ [][NextExtract]_vars

\* extract_features_from_query on queries of skill and test-type keywords
KeywordVocabulary == {T_python, T_SQL, T_coding, T_Aptitude, T_test}

KeywordQueryParts == UNION { [1..n -> KeywordVocabulary] : n \in 0..MaxTokens }

InitKeywords ==
    /\ qparts \in KeywordQueryParts
    /\ query = TextOf(qparts)
    /\ raw_query = query
    /\ pc = "extract"
    /\ recommendations = <<>>
    /\ fetch = "none"
    /\ enhanced_query = <<>>
    /\ search_text = <<>>
    /\ NoStore
    /\ encoded = <<>>
    /\ NoCaller
    /\ sim = <<>>
    /\ tie_low_first = TRUE
    /\ k = PipelineK
    /\ i = 0
    /\ top_scores = <<>>
    /\ top_indices = <<>>
    /\ max_duration = None
    /\ filtered = <<>>

NextKeywords == Extract

SpecKeywords == InitKeywords /\ [][NextKeywords]_vars

(***************************************************************************)
(* The two HTTP handlers, from the point where query_handling has returned *)
(* its frame (the variable filtered) to the response.                      *)
(***************************************************************************)
\* most that a caller asks for, and most below zero
MaxRequested == 2

\* the limit of df.head(10)
HeadLimit == 10

Max(a, b) == IF a > b THEN a ELSE b

\* s[:n] of Python: a negative n counts from the end
SliceTo(s, n) == IF n >= 0 THEN Take(s, n) ELSE Take(s, Max(Len(s) + n, 0))

\* the response of a handler that returned, and of one that raised HTTPException
Returned(items) == [status |-> 200, items |-> items]
Failed(status) == [status |-> status, items |-> <<>>]

\* AssessmentResponse(...) of one row: int() of the duration, the two flags
AssessmentResponse(rec) ==
    [Row |-> rec.Row, duration |-> Val(rec.Duration),
     remote_support |-> rec.Remote, adaptive_support |-> rec.Adaptive]

\* int(row.get('Duration in mins', 0)) raises ValueError on NaN, an absent duration
IntRaises(rec) == ~IsSet(rec.Duration)

\* api.py lines 41-66, the body of the try: what it raises, or what it returns
RecommendBody(df) ==
    LET head == Take(df, HeadLimit)
    IN  IF df = <<>> THEN [raised |-> TRUE, error |-> "HTTPException 404", items |-> <<>>]
        ELSE IF \E j \in 1..Len(head) : IntRaises(head[j])
        THEN [raised |-> TRUE, error |-> "ValueError", items |-> <<>>]
        ELSE [raised |-> FALSE, error |-> "",
              items |-> [j \in 1..Len(head) |-> AssessmentResponse(head[j])]]

\* api.py lines 39-71: `except Exception` catches whatever the body raised, the
\* HTTPException of line 44 included, and raises HTTPException(500)
recommend_assessments(df) ==
    LET body == RecommendBody(df)
    IN  IF body.raised THEN Failed(500) ELSE Returned(body.items)

\* main.py lines 27-46
get_recommendations(results_df, limit) ==
    IF results_df = <<>> THEN Returned(<<>>)
    ELSE Returned(SliceTo(results_df, limit))

\* the handler of POST /recommend ends
RespondRecommend ==
    /\ pc = "done"
    /\ endpoint = "/recommend"
    /\ response' = Some(recommend_assessments(filtered))
    /\ pc' = "responded"
    /\ UNCHANGED <<artifact, corpus_embeddings, encoded, other,
                   endpoint, num_results, calls, first_query, first_output,
                   qparts, query, raw_query, fetch, enhanced_query, search_text,
                   catalog_df, sim, tie_low_first, k, i, top_scores, top_indices,
                   recommendations, max_duration, filtered>>

\* the handler of POST /recommendations/ ends
RespondRecommendations ==
    /\ pc = "done"
    /\ endpoint = "/recommendations/"
    /\ response' = Some(get_recommendations(filtered, num_results))
    /\ pc' = "responded"
    /\ UNCHANGED <<artifact, corpus_embeddings, encoded, other,
                   endpoint, num_results, calls, first_query, first_output,
                   qparts, query, raw_query, fetch, enhanced_query, search_text,
                   catalog_df, sim, tie_low_first, k, i, top_scores, top_indices,
                   recommendations, max_duration, filtered>>

\* the values of num_results tried: below zero, zero, small, and the default
NumResultsValues == ((0 - MaxRequested)..MaxRequested) \cup {DefaultNumResults}

\* the handlers on their own: every frame of CandidateLists, either route
InitEndpoint ==
    /\ filtered \in CandidateLists
    /\ recommendations = filtered
    /\ endpoint \in {"/recommend", "/recommendations/"}
    /\ num_results \in IF endpoint = "/recommend" THEN {DefaultNumResults}
                        ELSE NumResultsValues
    /\ response = None
    /\ calls = 1
    /\ first_query = <<>>
    /\ first_output = <<>>
    /\ other = None
    /\ NoStore
    /\ encoded = <<>>
    /\ qparts = <<>>
    /\ query = <<>>
    /\ raw_query = <<>>
    /\ fetch = "none"
    /\ enhanced_query = <<>>
    /\ search_text = <<>>
    /\ sim = <<>>
    /\ tie_low_first = TRUE
    /\ k = PipelineK
    /\ i = 0
    /\ top_scores = <<>>
    /\ top_indices = <<>>
    /\ max_duration = None
    /\ pc = "done"

NextEndpoint == RespondRecommend \/ RespondRecommendations

SpecEndpoint == InitEndpoint /\ [][NextEndpoint]_vars

(***************************************************************************)
(* Two requests at once.  The variables of the request hold the locals of  *)
(* the request that is running; the locals of the other request are kept   *)
(* in the variable other, and Switch hands the processor over.             *)
(***************************************************************************)
\* the locals of the running request: the locals of the handler, of
\* query_handling, of find_recommendations and of filter_recommendations
RequestLocals ==
    [qparts |-> qparts, query |-> query, raw_query |-> raw_query, fetch |-> fetch,
     enhanced_query |-> enhanced_query, search_text |-> search_text, sim |-> sim,
     k |-> k, i |-> i, top_scores |-> top_scores, top_indices |-> top_indices,
     recommendations |-> recommendations, max_duration |-> max_duration,
     filtered |-> filtered, pc |-> pc,
     endpoint |-> endpoint, num_results |-> num_results, response |-> response]

\* the locals of a request that has just come in
NewRequest(parts, route, limit) ==
    [qparts |-> parts, query |-> TextOf(parts), raw_query |-> TextOf(parts),
     fetch |-> "none", enhanced_query |-> <<>>, search_text |-> <<>>, sim |-> <<>>,
     k |-> PipelineK, i |-> 0, top_scores |-> <<>>, top_indices |-> <<>>,
     recommendations |-> <<>>, max_duration |-> None, filtered |-> <<>>,
     pc |-> "start",
     endpoint |-> route, num_results |-> limit, response |-> None]

\* running lists kept in module-level variables: a request that resumes finds in
\* them what the request that ran meanwhile has left
Resumed_ModuleLevelLists(saved, running) ==
    [saved EXCEPT !.top_scores = running.top_scores,
                  !.top_indices = running.top_indices]

\* what a request finds in its locals when it resumes: top_scores, top_indices
\* (lines 154-155) and every other name the functions assign are local to the
\* call, so it finds what it left
Resumed(saved, running) == saved

\* the running request is suspended and the other one resumes
Switch ==
    /\ IsSet(other)
    /\ LET mine == Resumed(Val(other), RequestLocals)
       IN  /\ qparts' = mine.qparts
           /\ query' = mine.query
           /\ raw_query' = mine.raw_query
           /\ fetch' = mine.fetch
           /\ enhanced_query' = mine.enhanced_query
           /\ search_text' = mine.search_text
           /\ sim' = mine.sim
           /\ k' = mine.k
           /\ i' = mine.i
           /\ top_scores' = mine.top_scores
           /\ top_indices' = mine.top_indices
           /\ recommendations' = mine.recommendations
           /\ max_duration' = mine.max_duration
           /\ filtered' = mine.filtered
           /\ pc' = mine.pc
           /\ endpoint' = mine.endpoint
           /\ num_results' = mine.num_results
           /\ response' = mine.response
    /\ other' = Some(RequestLocals)
    /\ UNCHANGED <<artifact, catalog_df, corpus_embeddings, encoded, tie_low_first,
                   calls, first_query, first_output>>

\* catalogs of one row, with and without a duration
ConcurrentCatalogs == { <<ServiceCatalog[1]>>, <<ServiceCatalog[2]>> }

ConcurrentQueryParts == { <<T_test>>, <<T_remote, T_url>> }

\* one request on /recommend and one on /recommendations/, both just come in
InitConcurrent ==
    /\ \E rows \in ConcurrentCatalogs : Loaded(rows)
    /\ encoded = <<>>
    /\ tie_low_first = TRUE
    /\ calls = 1
    /\ first_query = <<>>
    /\ first_output = <<>>
    /\ \E parts \in ConcurrentQueryParts :
          other = Some(NewRequest(parts, "/recommendations/", DefaultNumResults))
    /\ qparts \in ConcurrentQueryParts
    /\ query = TextOf(qparts)
    /\ raw_query = query
    /\ fetch = "none"
    /\ enhanced_query = <<>>
    /\ search_text = <<>>
    /\ sim = <<>>
    /\ k = PipelineK
    /\ i = 0
    /\ top_scores = <<>>
    /\ top_indices = <<>>
    /\ recommendations = <<>>
    /\ max_duration = None
    /\ filtered = <<>>
    /\ pc = "start"
    /\ endpoint = "/recommend"
    /\ num_results = DefaultNumResults
    /\ response = None

NextConcurrent ==
    \/ NoUrl
    \/ FetchOk
    \/ FetchFailed
    \/ FetchBlocks
    \/ Extract
    \/ Encode
    \/ ScanBatch
    \/ BuildResults
    \/ Filter
    \/ RespondRecommend
    \/ RespondRecommendations
    \/ Switch

SpecConcurrent == InitConcurrent /\ [][NextConcurrent]_vars

(***************************************************************************)
(* What the caller wrote, read off the tokens of the query.                *)
(***************************************************************************)
\* token j is a duration phrase
PhraseAt(parts, j) == j \in 1..Len(parts) /\ parts[j].kind = "phrase"

\* token j is a duration phrase and the token before it is a qualifier
QualifiedAt(parts, j) == PhraseAt(parts, j) /\ j > 1 /\ parts[j - 1].kind = "qual"

HasPhrase(parts) == \E j \in 1..Len(parts) : PhraseAt(parts, j)

HasCeiling(parts) == \E j \in 1..Len(parts) : QualifiedAt(parts, j)

\* position of the first duration phrase
FirstPhrase(parts) ==
    CHOOSE j \in 1..Len(parts) :
        PhraseAt(parts, j) /\ \A r \in 1..(j - 1) : ~PhraseAt(parts, r)

\* position of the first duration phrase that follows a qualifier
FirstQualified(parts) ==
    CHOOSE j \in 1..Len(parts) :
        QualifiedAt(parts, j) /\ \A r \in 1..(j - 1) : ~QualifiedAt(parts, r)

\* the N of the first qualified phrase
CeilingOf(parts) == parts[FirstQualified(parts)].n

WantsRemote(parts) == \E j \in 1..Len(parts) : parts[j] = T_remote

WantsAdaptive(parts) == \E j \in 1..Len(parts) : parts[j] = T_Adaptive

\* the catalog flag reads "Yes", in any case
FlagYes(flag) == flag \in {F_Yes, F_yes}

\* the candidate breaks a constraint the query states
Violates(rec, parts) ==
    \/ HasCeiling(parts) /\ IsSet(rec.Duration) /\ Val(rec.Duration) > CeilingOf(parts)
    \/ WantsRemote(parts) /\ ~FlagYes(rec.Remote)
    \/ WantsAdaptive(parts) /\ ~FlagYes(rec.Adaptive)

SomeSatisfies(recs, parts) == \E j \in 1..Len(recs) : ~Violates(recs[j], parts)

Among(rec, recs) == \E j \in 1..Len(recs) : recs[j] = rec

\* the rows of a result list, in order
RowsOf(recs) == [j \in 1..Len(recs) |-> recs[j].Row]

\* the rows (0-based) of the kk best similarities of the whole catalog, equal
\* similarities in ascending row order
TrueTopK(sims, kk) ==
    Take(SortSeq([j \in 1..Len(sims) |-> j - 1],
                 LAMBDA a, b : \/ sims[a + 1] > sims[b + 1]
                               \/ sims[a + 1] = sims[b + 1] /\ a < b),
         kk)

NonIncreasing(recs) == \A j \in 1..(Len(recs) - 1) : recs[j].Score >= recs[j + 1].Score

(***************************************************************************)
(* find_recommendations (SpecFind)                                         *)
(***************************************************************************)
\* C1: once all batches are scanned, the rows returned are the k rows of the whole
\* catalog with the highest cosine similarity, equal scores in ascending row order.
C1_GlobalTopK ==
    pc = "filter" => RowsOf(recommendations) = TrueTopK(sim, k)

\* C2: find_recommendations returns min(k, N) results whose scores are in
\* non-increasing order, also for k larger than a batch or than the catalog.
C2_CountAndOrder ==
    pc = "filter" =>
        /\ Len(recommendations) = Min(k, Len(sim))
        /\ NonIncreasing(recommendations)

\* For k up to the batch size (the pipeline asks for 10) the count is min(k, N)
\* and the scores are in non-increasing order: the candidate lists that reach
\* filter_recommendations are sorted by score.
SortedWhenKWithinBatch ==
    (pc = "filter" /\ k =< batch_size) =>
        /\ Len(recommendations) = Min(k, Len(sim))
        /\ NonIncreasing(recommendations)

(***************************************************************************)
(* filter_recommendations (SpecFilter)                                     *)
(***************************************************************************)
\* C3: when the constraints of the query eliminate every candidate of a non-empty
\* list, exactly one result is returned, a candidate of the highest score.
C3_FallbackToBest ==
    (/\ pc = "done"
     /\ recommendations # <<>>
     /\ ~SomeSatisfies(recommendations, qparts)) =>
        /\ Len(filtered) = 1
        /\ Among(filtered[1], recommendations)
        /\ \A j \in 1..Len(recommendations) :
               filtered[1].Score >= recommendations[j].Score

\* The fallback law for every ceiling but 0.
FallbackToBestPositiveCeiling ==
    (/\ pc = "done"
     /\ recommendations # <<>>
     /\ HasCeiling(qparts) => CeilingOf(qparts) # 0
     /\ ~SomeSatisfies(recommendations, qparts)) =>
        /\ Len(filtered) = 1
        /\ Among(filtered[1], recommendations)
        /\ \A j \in 1..Len(recommendations) :
               filtered[1].Score >= recommendations[j].Score

\* C4: with a qualified ceiling phrase of N >= 0 minutes and a candidate that
\* satisfies every constraint, no result has a duration that is set and above N.
C4_CeilingRespected ==
    (/\ pc = "done"
     /\ HasCeiling(qparts)
     /\ SomeSatisfies(recommendations, qparts)) =>
        \A j \in 1..Len(filtered) :
            ~(IsSet(filtered[j].Duration) /\ Val(filtered[j].Duration) > CeilingOf(qparts))

\* C5: when the query says remote (adaptive) and a candidate satisfies every
\* constraint, every result has the remote (adaptive) flag "Yes" in some case.
C5_FlagsRespected ==
    (pc = "done" /\ SomeSatisfies(recommendations, qparts)) =>
        /\ WantsRemote(qparts) =>
               \A j \in 1..Len(filtered) : FlagYes(filtered[j].Remote)
        /\ WantsAdaptive(qparts) =>
               \A j \in 1..Len(filtered) : FlagYes(filtered[j].Adaptive)

\* a remote query, a candidate that satisfies it and one without the flag, dropped
C5_Witness ==
    /\ pc = "done"
    /\ WantsRemote(qparts)
    /\ SomeSatisfies(recommendations, qparts)
    /\ \E j \in 1..Len(recommendations) :
           ~FlagYes(recommendations[j].Remote) /\ ~Among(recommendations[j], filtered)

\* C6: a candidate without a duration that has the flags the query asks for is
\* never removed, whatever the ceiling.
C6_UnsetDurationKept ==
    pc = "done" =>
        \A j \in 1..Len(recommendations) :
            (/\ ~IsSet(recommendations[j].Duration)
             /\ WantsRemote(qparts) => FlagYes(recommendations[j].Remote)
             /\ WantsAdaptive(qparts) => FlagYes(recommendations[j].Adaptive)) =>
                Among(recommendations[j], filtered)

\* a ceiling that drops one candidate and keeps the one without a duration
C6_Witness ==
    /\ pc = "done"
    /\ HasCeiling(qparts) /\ CeilingOf(qparts) > 0
    /\ \E j \in 1..Len(recommendations) :
           ~IsSet(recommendations[j].Duration) /\ Among(recommendations[j], filtered)
    /\ \E j \in 1..Len(recommendations) :
           IsSet(recommendations[j].Duration) /\ ~Among(recommendations[j], filtered)

\* C7: with no qualified ceiling, no "remote" and no "adaptive" in the query the
\* result is the input list itself.
C7_NoConstraintIdentity ==
    (/\ pc = "done"
     /\ ~HasCeiling(qparts) /\ ~WantsRemote(qparts) /\ ~WantsAdaptive(qparts)) =>
        filtered = recommendations

\* an unqualified "30 minutes" and a candidate of 45 minutes, kept
C7_Witness ==
    /\ pc = "done"
    /\ qparts = <<T_30_minutes>>
    /\ Len(recommendations) = 2
    /\ recommendations[2].Duration = Some(45)
    /\ Len(filtered) = 2

\* C8: the result holds only input candidates, each once, in their input order.
C8_Subsequence ==
    pc = "done" =>
        \E at \in [1..Len(filtered) -> 1..Len(recommendations)] :
            /\ \A j \in 1..Len(filtered) : filtered[j] = recommendations[at[j]]
            /\ \A a, b \in 1..Len(filtered) : a < b => at[a] < at[b]

\* a constraint is active and two candidates survive it
C8_Witness ==
    /\ pc = "done"
    /\ WantsRemote(qparts)
    /\ Len(filtered) = 2

\* the fallback: nothing survives and the first candidate of two is returned
C8_WitnessFallback ==
    /\ pc = "done"
    /\ Len(recommendations) = 2
    /\ ~SomeSatisfies(recommendations, qparts)
    /\ Len(filtered) = 1

(***************************************************************************)
(* The duration phrases (SpecExtract)                                      *)
(***************************************************************************)
\* C9: a duration phrase "N min/mins/minutes" (N >= 1) without a qualifier sets no
\* ceiling but puts "N minutes" into the search string; with a qualifier it sets
\* the ceiling to N.  Stated of every duration phrase of the query.
C9_EveryPhrase ==
    \A j \in 1..Len(qparts) :
        (PhraseAt(qparts, j) /\ qparts[j].n >= 1) =>
            /\ (pc = "encode" /\ ~QualifiedAt(qparts, j)) =>
                   Contains(enhanced_query, qparts[j].minutes)
            /\ (pc = "done" /\ ~HasCeiling(qparts)) => max_duration = None
            /\ (pc = "done" /\ QualifiedAt(qparts, j)) => max_duration = Some(qparts[j].n)

\* C9 as amended: the first duration phrase of the query (N >= 1) puts "N minutes"
\* into the search string; no phrase without a qualifier sets a ceiling; the
\* ceiling is the N of the first phrase that follows a qualifier.
C9_FirstPhrase ==
    /\ (pc = "encode" /\ HasPhrase(qparts) /\ qparts[FirstPhrase(qparts)].n >= 1) =>
           Contains(enhanced_query, qparts[FirstPhrase(qparts)].minutes)
    /\ (pc = "done" /\ ~HasCeiling(qparts)) => max_duration = None
    /\ (pc = "done" /\ HasCeiling(qparts) /\ CeilingOf(qparts) >= 1) =>
           max_duration = Some(CeilingOf(qparts))

\* "test 30 minutes" went through extract_features_from_query
C9_Witness ==
    /\ pc = "encode"
    /\ qparts = <<T_test, T_30_minutes>>
    /\ Contains(enhanced_query, T_30_minutes.minutes)

\* "test 30 minutes" went through filter_recommendations
C9_WitnessNoCeiling ==
    pc = "done" /\ qparts = <<T_test, T_30_minutes>> /\ max_duration = None

\* "Less than 020 Min" went through filter_recommendations
C9_WitnessQualified ==
    pc = "done" /\ qparts = <<T_less_than, T_020_Min>> /\ max_duration = Some(20)

(***************************************************************************)
(* The failed page fetch (Spec)                                            *)
(***************************************************************************)
\* C10: when the fetch of the URL fails the request goes on, and the search text
\* and the constraints are those of the raw query text alone.
C10_FailureLeavesQueryAlone ==
    (fetch = "failed" /\ pc = "done") =>
        /\ search_text = SearchTextOf(raw_query)
        /\ max_duration = max_duration_of(Lower(raw_query))
        /\ Contains(Lower(query), W_remote) <=> Contains(Lower(raw_query), W_remote)
        /\ Contains(Lower(query), W_adaptive) <=> Contains(Lower(raw_query), W_adaptive)

(***************************************************************************)
(* The handlers.                                                           *)
(***************************************************************************)
\* the response is there and has this status
Answered(status) == IsSet(response) /\ Val(response).status = status

\* the items of the response are the first n of the frame, in its order
FirstOfFrame(n) ==
    /\ Len(Val(response).items) = Min(n, Len(filtered))
    /\ \A j \in 1..Len(Val(response).items) : Val(response).items[j].Row = filtered[j].Row

EmptyIsNotAnErrorOnRecommendations ==
    (pc = "responded" /\ filtered = <<>> /\ endpoint = "/recommendations/") =>
        /\ Answered(200)
        /\ Val(response).items = <<>>

\* C14: /recommendations/ answers with at most num_results items, the first of the
\* frame in its order, for every integer num_results; /recommend with at most the
\* first 10
C14_AtMostRequested ==
    pc = "responded" =>
        /\ endpoint = "/recommendations/" =>
              /\ Len(Val(response).items) =< num_results
              /\ FirstOfFrame(Len(Val(response).items))
        /\ endpoint = "/recommend" =>
              /\ Len(Val(response).items) =< HeadLimit
              /\ FirstOfFrame(Len(Val(response).items))

\* (supports C14) the same for the values of num_results that are not below zero:
\* exactly the first min(num_results, n) items
AtMostRequestedFromZero ==
    (pc = "responded" /\ endpoint = "/recommendations/" /\ num_results >= 0) =>
        /\ Answered(200)
        /\ FirstOfFrame(num_results)

\* C20: /recommend answers a non-empty frame with a success holding its first
\* min(10, n) rows, whether or not a row has a duration
C20_AbsentDurationIsNoFailure ==
    (pc = "responded" /\ endpoint = "/recommend" /\ filtered # <<>>) =>
        /\ Answered(200)
        /\ FirstOfFrame(HeadLimit)

\* (supports C20) the same for the frames in which every one of the first 10 rows
\* has its duration
SuccessWhenDurationsSet ==
    (/\ pc = "responded" /\ endpoint = "/recommend" /\ filtered # <<>>
     /\ \A j \in 1..Min(HeadLimit, Len(filtered)) : IsSet(filtered[j].Duration)) =>
        /\ Answered(200)
        /\ FirstOfFrame(HeadLimit)

(***************************************************************************)
(* The search text.                                                        *)
(***************************************************************************)
\* the request is past line 200
Extracted == pc \in {"encode", "scan", "filter", "done", "responded"}

C12_WitnessNoUrl ==
    /\ Extracted
    /\ enhanced_query = <<>>
    /\ fetch = "none"
    /\ raw_query # <<>>
    /\ search_text = raw_query

(***************************************************************************)
(* The keywords of the search string.                                      *)
(***************************************************************************)
\* token j of the query is the keyword w, in whatever case
KeywordAt(parts, j, w) == parts[j].kind = "word" /\ Lower(parts[j].text) = w

\* the keyword w is a token of the query
Mentions(parts, w) == \E j \in 1..Len(parts) : KeywordAt(parts, j, w)

SkillKeywords == {skills[j] : j \in 1..Len(skills)}

TestTypeKeywords == {test_types[j] : j \in 1..Len(test_types)}

\* C13: the search string holds every skill keyword and every test-type keyword
\* that occurs in the query, also when the query mentions several test types
C13_EveryKeyword ==
    pc = "encode" =>
        \A w \in SkillKeywords \cup TestTypeKeywords :
            Mentions(qparts, w) => Contains(enhanced_query, w)

\* (supports C13) the search string holds every skill keyword of the query, and of
\* its test-type keywords the one that comes first in the vocabulary
EverySkillFirstTestType ==
    pc = "encode" =>
        /\ \A w \in SkillKeywords : Mentions(qparts, w) => Contains(enhanced_query, w)
        /\ \A j \in 1..Len(test_types) :
              (/\ Mentions(qparts, test_types[j])
               /\ \A l \in 1..(j - 1) : ~Mentions(qparts, test_types[l]))
              => Contains(enhanced_query, test_types[j])

(***************************************************************************)
(* Scores and records.                                                     *)
(***************************************************************************)
\* the running lists are as long as each other and, position by position, the
\* score is the similarity of the row the index names
RunningListsAligned ==
    /\ Len(top_scores) = Len(top_indices)
    /\ \A j \in 1..Len(top_scores) : top_scores[j] = sim[top_indices[j] + 1]

\* every result carries the rounded similarity of the row whose fields it holds
ScoresOfOwnRows ==
    \A j \in 1..Len(recommendations) :
        recommendations[j].Score = Round4(sim[recommendations[j].Row + 1])

\* C19: after any number of batch merges the running lists are aligned, and the
\* Score of every result is the similarity of the record returned with it
C19_ScoresAligned ==
    /\ pc = "scan" => RunningListsAligned
    /\ pc = "filter" => ScoresOfOwnRows

\* (supports C19) the same while the scan has merged nothing: the catalog fits in
\* one batch
AlignedWithinOneBatch ==
    Len(sim) =< batch_size =>
        /\ pc = "scan" => RunningListsAligned
        /\ pc = "filter" => ScoresOfOwnRows

(***************************************************************************)
(* The process.                                                            *)
(***************************************************************************)
\* the artifact is missing or has no row
NoCatalog == artifact = None \/ artifact = Some(<<>>)

\* C18: with the artifact missing or without rows, startup ends in an error and
\* the process never comes to serve a request
C18_NoServiceWithoutCatalog ==
    NoCatalog =>
        /\ pc \in {"boot", "embed", "crashed"}
        /\ pc = "embed" => ENABLED ConcatFails /\ ~ENABLED BuildEmbeddings

\* an artifact without rows, and startup has ended in the error of torch.cat
C18_Witness == artifact = Some(<<>>) /\ pc = "crashed"

\* a missing artifact, and startup has ended in FileNotFoundError
C18_WitnessMissing == artifact = None /\ pc = "crashed"

\* C16: a second call of query_handling with the same raw query, the same catalog
\* and embedding function, and the same fetched text, returns what the first call
\* returned: same records, same order, same scores
C16_SameOutputTwice ==
    (calls = 2 /\ pc = "done" /\ query = first_query) => filtered = first_output

\* both calls have returned, the page read the same both times, and the output
\* holds two records
C16_Witness ==
    /\ calls = 2
    /\ pc = "done"
    /\ fetch = "ok"
    /\ query = first_query
    /\ Len(filtered) = 2
    /\ filtered = first_output

\* C17: every request completes, since a page fetch whose server never answers
\* gives up after its timeout and the pipeline goes on
C17_RequestCompletes == (pc = "start") ~> (pc = "done")

\* (supports C17) every request completes or stays in the page fetch
CompletesOrBlocks == (pc = "start") ~> (pc = "done" \/ pc = "blocked")

(***************************************************************************)
(* Requests side by side.                                                  *)
(***************************************************************************)
\* lines 157-169 as a fold over the batches, from offset off on
RECURSIVE ScanFrom(_, _, _, _, _, _)
ScanFrom(sims, kk, low_first, off, scores, indices) ==
    IF off >= Len(sims) THEN <<scores, indices>>
    ELSE LET batch_scores == SubSeq(sims, off + 1, Min(off + batch_size, Len(sims)))
             positions == TopKPositions(batch_scores, Min(kk, Len(batch_scores)), low_first)
             more_scores == scores \o [j \in 1..Len(positions) |->
                                           batch_scores[positions[j] + 1]]
             more_indices == indices \o [j \in 1..Len(positions) |-> positions[j] + off]
         IN  ScanFrom(sims, kk, low_first, off + batch_size,
                      MergeScores(more_scores, kk),
                      MergeIndices(more_scores, more_indices, kk))

\* find_recommendations run from start to end over the given rows
find_recommendations(sims, kk, low_first, rows) ==
    LET lists == ScanFrom(sims, kk, low_first, 0, <<>>, <<>>)
    IN  [j \in 1..Min(Len(lists[1]), Len(lists[2])) |->
            ResultOf(rows[lists[2][j] + 1], lists[2][j], lists[1][j])]

\* what query_handling returns to a request with these locals when nothing else
\* runs: computed from the query after URL handling, the embedding model and the
\* catalog as startup left it
AloneOutput(l) ==
    LET sims == encoded[SearchTextOf(l.query)]
    IN  filter_recommendations(
            find_recommendations(sims, PipelineK, tie_low_first, Val(artifact)),
            l.query)

\* the response of the request's handler to that output
AloneResponse(l, out) ==
    IF l.endpoint = "/recommend" THEN recommend_assessments(out)
    ELSE get_recommendations(out, l.num_results)

\* a request has what it would have if it ran alone
AsAlone(l) ==
    l.pc \in {"done", "responded"} =>
        LET out == AloneOutput(l)
        IN  /\ l.filtered = out
            /\ l.pc = "responded" => l.response = Some(AloneResponse(l, out))

\* C15: under any interleaving of two requests, succeeding or failing, the catalog
\* table and the embeddings stay as startup left them, and each request returns
\* what it would return if it ran alone (stated of the request that is running:
\* Switch makes either of the two the running one at any point)
C15_SharedStateUntouched ==
    /\ catalog_df = Val(artifact)
    /\ corpus_embeddings = Embeddings(Val(artifact))
    /\ AsAlone(RequestLocals)

\* both requests were under way together and both have their response, one a
\* failure and one a success
C15_Witness ==
    /\ IsSet(other)
    /\ pc = "responded"
    /\ Val(other).pc = "responded"
    /\ Val(other).i > 0
    /\ Val(response).status = 500
    /\ Val(Val(other).response).status = 200
    /\ Val(Val(other).response).items # <<>>
====
